---- MODULE Spec2Model ----
(***************************************************************************)
(* Model of packages/@n8n/task-runner/src/js-task-runner/require-resolver.ts *)
(*                                                                         *)
(* createRequireResolver builds the gate `resolve(request)` over an        *)
(* immutable policy; createSecureChildProcessWrapper builds the filtered   *)
(* child_process facility whose spawn, exec, execFile and fork strip the   *)
(* sensitive variables from the environment option.                        *)
(*                                                                         *)
(* JavaScript objects live in two heaps: `envs` (environment mappings,     *)
(* envs[ProcessEnv] is process.env) and `opts` (options objects).  A       *)
(* reference is an index into a heap; 0 is `undefined`.                    *)
(***************************************************************************)
EXTENDS Naturals, Integers, Sequences, FiniteSets, TLC

VARIABLES
    policy,     \* RequireResolverOpts captured by the closure (lines 22-25)
    calls,      \* log of the resolve calls made so far: request, admitted
    loads,      \* log of the requests handed to the host's require (line 40)
    result,     \* outcome of the latest resolve call: thrown error or returned handle
    envs,       \* heap of environment mappings; envs[ProcessEnv] is process.env
    opts,       \* heap of options objects: [env |-> reference or 0, rest |-> other options]
    lastCall,   \* latest member invocation made by the sandboxed code on the handle
    lastRaw,    \* latest invocation received by the raw child_process facility
    rawCount,   \* number of invocations received by the raw child_process facility
    returned    \* value handed back to the sandboxed code by the latest invocation

vars == <<policy, calls, loads, result, envs, opts, lastCall, lastRaw, rawCount, returned>>

gateVars == <<calls, loads, result>>
heapVars == <<envs, opts, lastCall, lastRaw, rawCount, returned>>

----------------------------------------------------------------------------
(* Bounds of the model *)

MaxAllow == 1       \* largest explicit allow-set drawn for a policy
MaxResolves == 2    \* resolve calls per behaviour
MaxSpawns == 2      \* member invocations per behaviour

----------------------------------------------------------------------------
(* Capability names and the host's collaborators *)

Names == {"fs", "child_process", "node:child_process", "lodash"}

\* node:module isBuiltin: a core module name, with or without the node: scheme
isBuiltin(request) == request \in {"fs", "child_process", "node:child_process"}

SpawnStyleOps == {"spawn", "exec", "execFile", "fork"}
SyncOps == {"execSync", "execFileSync", "spawnSync"}
ChildProcessMembers == SpawnStyleOps \cup SyncOps \cup {"ChildProcess"}

RawMember(mod, m) == [impl |-> "raw", module |-> mod, name |-> m]

RawChildProcess == [m \in ChildProcessMembers |-> RawMember("child_process", m)]

\* require(request): the host's load; both spellings of the core module
\* yield the one child_process module object
Require(request) ==
    CASE request \in {"child_process", "node:child_process"} -> RawChildProcess
      [] request = "fs" -> [m \in {"readFileSync"} |-> RawMember("fs", m)]
      [] OTHER -> [m \in {"chunk"} |-> RawMember(request, m)]

----------------------------------------------------------------------------
(* Policy *)

Wildcard == [wildcard |-> TRUE, names |-> {}]
Explicit(S) == [wildcard |-> FALSE, names |-> S]

AllowLists == {Wildcard} \cup {Explicit(S) : S \in {T \in SUBSET Names : Cardinality(T) <= MaxAllow}}

Policies == [allowedBuiltInModules : AllowLists, allowedExternalModules : AllowLists]

checkIsAllowed(allowList, moduleName) ==
    allowList.wildcard \/ moduleName \in allowList.names

\* variant: the name is looked up in both allow-sets, whatever its classification
isAllowedInEither(p, request) ==
    \/ checkIsAllowed(p.allowedBuiltInModules, request)
    \/ checkIsAllowed(p.allowedExternalModules, request)

isAllowed(p, request) ==
    IF isBuiltin(request)
    THEN checkIsAllowed(p.allowedBuiltInModules, request)
    ELSE checkIsAllowed(p.allowedExternalModules, request)

----------------------------------------------------------------------------
(* Subprocess credential filter *)

SENSITIVE_ENV_VARS == {"ANTHROPIC_API_KEY", "N8N_RUNNERS_GRANT_TOKEN", "N8N_RUNNERS_AUTH_TOKEN"}

SecureMember(m) == [impl |-> "secure", module |-> "child_process", name |-> m]

\* variant: the object literal without the ...childProcess spread
createWrapperWithoutSpread(childProcess) ==
    [m \in SpawnStyleOps |-> SecureMember(m)]

\* { ...childProcess, spawn: ..., exec: ..., execFile: ..., fork: ... }
createSecureChildProcessWrapper(childProcess) ==
    [m \in (DOMAIN childProcess) \cup SpawnStyleOps |->
        IF m \in SpawnStyleOps THEN SecureMember(m) ELSE childProcess[m]]

ProcessEnv == 1     \* reference of process.env in the envs heap

\* const cleaned = { ...base }; SENSITIVE_ENV_VARS.forEach((key) => delete cleaned[key])
Cleaned(base) == [k \in (DOMAIN base) \ SENSITIVE_ENV_VARS |-> base[k]]

\* variant: `const cleaned = env ?? process.env`, the keys deleted on the
\* object itself instead of on a copy
stripInPlace(h, env) ==
    LET r == IF env = 0 THEN ProcessEnv ELSE env
    IN  [heap |-> [h EXCEPT ![r] = Cleaned(h[r])], ref |-> r]

\* stripSensitiveEnvVars(env) on heap h: env is a reference, or 0 for a falsy env.
\* The result is the heap after the call and the reference returned.
stripSensitiveEnvVars(h, env) ==
    LET base == IF env = 0 THEN h[ProcessEnv] ELSE h[env]
    IN  [heap |-> Append(h, Cleaned(base)), ref |-> Len(h) + 1]

----------------------------------------------------------------------------
(* JavaScript values passed positionally after the command / file argument *)

Undefined == [t |-> "undefined", ref |-> 0]
ArgsList == [t |-> "array", ref |-> 1]       \* an argument list such as ['-l']
Callback == [t |-> "function", ref |-> 1]    \* a completion callback
Obj(r) == [t |-> "object", ref |-> r]        \* the options object opts[r]

\* options?.env : the env property when `options` is an options object
\* that has one; undefined (0) for undefined and for a function
optionsEnv(options) ==
    IF options.t = "object" THEN opts[options.ref].env ELSE 0

\* { ...options } : the own enumerable properties other than env; nothing
\* for undefined and for a function
Spread(options) ==
    IF options.t = "object" THEN opts[options.ref].rest ELSE [k \in {} |-> ""]

\* Call forms the host documents: spawn(command[, args][, options]),
\* fork(modulePath[, args][, options]), and the same for the *Sync forms.
\* A missing parameter is undefined.
SpawnForms(objs) ==
    {<<a, o>> : a \in {Undefined, ArgsList}, o \in {Undefined} \cup objs}
    \cup {<<o, Undefined>> : o \in objs}

\* exec(command[, options][, callback])
ExecForms(objs) ==
    {<<o, c>> : o \in {Undefined} \cup objs, c \in {Undefined, Callback}}
    \cup {<<Callback, Undefined>>}

\* execFile(file[, args][, options][, callback])
ExecFileForms(objs) ==
    {<<a, o, c>> : a \in {Undefined, ArgsList}, o \in {Undefined} \cup objs,
                   c \in {Undefined, Callback}}
    \cup {<<o, c, Undefined>> : o \in objs, c \in {Undefined, Callback}}
    \cup {<<ArgsList, Callback, Undefined>>, <<Callback, Undefined, Undefined>>}

\* execSync(command[, options])
ExecSyncForms(objs) == {<<o>> : o \in {Undefined} \cup objs}

Forms(op, objs) ==
    CASE op \in {"spawn", "fork", "spawnSync", "execFileSync"} -> SpawnForms(objs)
      [] op = "exec" -> ExecForms(objs)
      [] op = "execFile" -> ExecFileForms(objs)
      [] OTHER -> ExecSyncForms(objs)

----------------------------------------------------------------------------
(* Objects owned by the sandboxed code and by the host before any call *)

Env(S, v) == [k \in S |-> v]

\* process.env of the runner: PATH, with or without the three credentials
AmbientEnvs == {Env({"PATH"} \cup S, "host") : S \in {SENSITIVE_ENV_VARS, {}}}

\* env mappings the sandboxed code passes: a key absent from process.env,
\* with or without credentials of its own
CallerEnvs == {Env({"SECRET"} \cup S, "x") : S \in {SENSITIVE_ENV_VARS, {}}}

CallerEnv == 2      \* reference of the sandboxed code's env mapping

\* options objects of the sandboxed code: { cwd } and { cwd, env }
CallerOpts ==
    << [env |-> 0, rest |-> [k \in {"cwd"} |-> "/tmp"]],
       [env |-> CallerEnv, rest |-> [k \in {"cwd"} |-> "/tmp"]] >>

CallerObjs == {Obj(r) : r \in 1..Len(CallerOpts)}

NoCall == [member |-> "", argv |-> <<>>, impl |-> ""]
NoRaw == [op |-> "", argv |-> <<>>, result |-> Undefined]
NoResult == [kind |-> "none", request |-> "", error |-> "", value |-> [m \in {} |-> ""]]

Child(n) == [t |-> "child", ref |-> n]   \* what the raw operation returns

InitHeap ==
    /\ envs \in {<<a, e>> : a \in AmbientEnvs, e \in CallerEnvs}
    /\ opts = CallerOpts
    /\ lastCall = NoCall
    /\ lastRaw = NoRaw
    /\ rawCount = 0
    /\ returned = Undefined

----------------------------------------------------------------------------
(* The capability gate: the closure returned by createRequireResolver *)

\* new ExecutionError(new DisallowedModuleError(request))
DisallowedModuleError(request) == [name |-> "DisallowedModuleError", moduleName |-> request]
ExecutionError(error) == [name |-> "ExecutionError", cause |-> error]

\* variant: the node: spelling of the module is wrapped too
ResolveValueAnySpelling(request) ==
    IF request \in {"child_process", "node:child_process"}
    THEN createSecureChildProcessWrapper(Require(request))
    ELSE Require(request)

\* the value the call returns once admitted (lines 40-47)
ResolveValue(request) ==
    IF request = "child_process"
    THEN createSecureChildProcessWrapper(Require(request))
    ELSE Require(request)

\* outcome of one call: throw (lines 35-38) or return (lines 40-47)
ResolveResult(request) ==
    IF ~isAllowed(policy, request)
    THEN [kind |-> "throw", request |-> request,
          error |-> ExecutionError(DisallowedModuleError(request)),
          value |-> [m \in {} |-> ""]]
    ELSE [kind |-> "return", request |-> request, error |-> "",
          value |-> ResolveValue(request)]

\* variant: require(request) hoisted above the admission check
LoadsBeforeCheck(request) == Append(loads, request)

\* variant: a module already loaded by an earlier call is not loaded again
LoadsCached(request) ==
    IF isAllowed(policy, request) /\ \A i \in DOMAIN loads : loads[i] # request
    THEN Append(loads, request)
    ELSE loads

\* require(request) runs on line 40, after the throw of line 37
LoadsAfter(request) ==
    IF isAllowed(policy, request) THEN Append(loads, request) ELSE loads

Resolve ==
    \E request \in Names :
        /\ Len(calls) < MaxResolves
        /\ calls' = Append(calls, [request |-> request,
                                   admitted |-> (ResolveResult(request).kind = "return")])
        /\ loads' = LoadsAfter(request)
        /\ result' = ResolveResult(request)
        /\ UNCHANGED <<policy, heapVars>>

----------------------------------------------------------------------------
(* Invocations of the members of the handle held by the sandboxed code *)

Holds(m, impl) ==
    /\ result.kind = "return"
    /\ m \in DOMAIN result.value
    /\ result.value[m].impl = impl
    /\ result.value[m].module = "child_process"

\* The four wrappers (lines 79-106).  Each builds secureOptions from its
\* parameter `options`, calls the raw operation once and returns its result.
\* SecureRef is the reference secureOptions gets in the opts heap.
SecureRef == Obj(Len(opts) + 1)

\* spawn: (command, args?, options?) => childProcess.spawn(command, args, secureOptions)
Spawn ==
    \E argv \in SpawnForms(CallerObjs) :
        LET options == argv[2]
            s == stripSensitiveEnvVars(envs, optionsEnv(options))
            secureOptions == [env |-> s.ref, rest |-> Spread(options)]
        IN  /\ rawCount < MaxSpawns
            /\ Holds("spawn", "secure")
            /\ envs' = s.heap
            /\ opts' = Append(opts, secureOptions)
            /\ lastCall' = [member |-> "spawn", argv |-> argv, impl |-> "secure"]
            /\ lastRaw' = [op |-> "spawn", argv |-> <<argv[1], SecureRef>>,
                           result |-> Child(rawCount + 1)]
            /\ rawCount' = rawCount + 1
            /\ returned' = Child(rawCount + 1)
            /\ UNCHANGED <<policy, gateVars>>

\* exec: (command, options?, callback?) => childProcess.exec(command, secureOptions, callback)
Exec ==
    \E argv \in ExecForms(CallerObjs) :
        LET options == argv[1]
            s == stripSensitiveEnvVars(envs, optionsEnv(options))
            secureOptions == [env |-> s.ref, rest |-> Spread(options)]
        IN  /\ rawCount < MaxSpawns
            /\ Holds("exec", "secure")
            /\ envs' = s.heap
            /\ opts' = Append(opts, secureOptions)
            /\ lastCall' = [member |-> "exec", argv |-> argv, impl |-> "secure"]
            /\ lastRaw' = [op |-> "exec", argv |-> <<SecureRef, argv[2]>>,
                           result |-> Child(rawCount + 1)]
            /\ rawCount' = rawCount + 1
            /\ returned' = Child(rawCount + 1)
            /\ UNCHANGED <<policy, gateVars>>

\* execFile: (file, args?, options?, callback?) =>
\*     childProcess.execFile(file, args, secureOptions, callback)
ExecFile ==
    \E argv \in ExecFileForms(CallerObjs) :
        LET options == argv[2]
            s == stripSensitiveEnvVars(envs, optionsEnv(options))
            secureOptions == [env |-> s.ref, rest |-> Spread(options)]
        IN  /\ rawCount < MaxSpawns
            /\ Holds("execFile", "secure")
            /\ envs' = s.heap
            /\ opts' = Append(opts, secureOptions)
            /\ lastCall' = [member |-> "execFile", argv |-> argv, impl |-> "secure"]
            /\ lastRaw' = [op |-> "execFile", argv |-> <<argv[1], SecureRef, argv[3]>>,
                           result |-> Child(rawCount + 1)]
            /\ rawCount' = rawCount + 1
            /\ returned' = Child(rawCount + 1)
            /\ UNCHANGED <<policy, gateVars>>

\* fork: (modulePath, args?, options?) => childProcess.fork(modulePath, args, secureOptions)
Fork ==
    \E argv \in SpawnForms(CallerObjs) :
        LET options == argv[2]
            s == stripSensitiveEnvVars(envs, optionsEnv(options))
            secureOptions == [env |-> s.ref, rest |-> Spread(options)]
        IN  /\ rawCount < MaxSpawns
            /\ Holds("fork", "secure")
            /\ envs' = s.heap
            /\ opts' = Append(opts, secureOptions)
            /\ lastCall' = [member |-> "fork", argv |-> argv, impl |-> "secure"]
            /\ lastRaw' = [op |-> "fork", argv |-> <<argv[1], SecureRef>>,
                           result |-> Child(rawCount + 1)]
            /\ rawCount' = rawCount + 1
            /\ returned' = Child(rawCount + 1)
            /\ UNCHANGED <<policy, gateVars>>

\* A member that is the raw facility's own (forwarded by ...childProcess, or
\* a member of a raw handle): the raw operation receives the caller's arguments
Forwarded ==
    \E m \in SpawnStyleOps \cup SyncOps :
        \E argv \in Forms(m, CallerObjs) :
            /\ rawCount < MaxSpawns
            /\ Holds(m, "raw")
            /\ lastCall' = [member |-> m, argv |-> argv, impl |-> "raw"]
            /\ lastRaw' = [op |-> m, argv |-> argv, result |-> Child(rawCount + 1)]
            /\ rawCount' = rawCount + 1
            /\ returned' = Child(rawCount + 1)
            /\ UNCHANGED <<policy, gateVars, envs, opts>>

----------------------------------------------------------------------------
(* Specifications *)

\* The sandbox: a resolver over any policy, and the handles it returns in use
Init ==
    /\ policy \in Policies
    /\ calls = <<>>
    /\ loads = <<>>
    /\ result = NoResult
    /\ InitHeap

Next ==
    \/ Resolve
    \/ Spawn
    \/ Exec
    \/ ExecFile
    \/ Fork
    \/ Forwarded

Spec == Init /\ [][Next]_vars

\* The gate alone
NextGate == Resolve

SpecGate == Init /\ [][NextGate]_vars

\* The filter alone: the handle is createSecureChildProcessWrapper(childProcess)
InitFilter ==
    /\ policy = [allowedBuiltInModules |-> Wildcard, allowedExternalModules |-> Wildcard]
    /\ calls = <<>>
    /\ loads = <<>>
    /\ result = [kind |-> "return", request |-> "child_process", error |-> "",
                 value |-> createSecureChildProcessWrapper(RawChildProcess)]
    /\ InitHeap

NextFilter ==
    \/ Spawn
    \/ Exec
    \/ ExecFile
    \/ Fork
    \/ Forwarded

SpecFilter == InitFilter /\ [][NextFilter]_vars

----------------------------------------------------------------------------
(* The raw facility as the host documents it, for reading what it received *)

\* first argument of JavaScript type t among the optional ones, else undefined
Pick(argv, t) ==
    IF \E i \in DOMAIN argv : argv[i].t = t
    THEN argv[CHOOSE i \in DOMAIN argv :
                  argv[i].t = t /\ \A j \in DOMAIN argv : argv[j].t = t => i <= j]
    ELSE Undefined

\* the caller's arguments in the parameter order the wrappers declare:
\* (args, options), (options, callback), (args, options, callback), (options)
Aligned(op, argv) ==
    CASE op \in {"spawn", "fork", "spawnSync", "execFileSync"} ->
            <<Pick(argv, "array"), Pick(argv, "object")>>
      [] op = "exec" -> <<Pick(argv, "object"), Pick(argv, "function")>>
      [] op = "execFile" ->
            <<Pick(argv, "array"), Pick(argv, "object"), Pick(argv, "function")>>
      [] OTHER -> <<Pick(argv, "object")>>

\* position, after the command, of the options parameter of a raw operation
OptionsIndex(op) == IF op \in {"exec", "execSync"} THEN 1 ELSE 2

\* the latest raw invocation has one of the documented call forms
RawWellFormed ==
    /\ lastRaw.op # ""
    /\ lastRaw.argv \in Forms(lastRaw.op, {Obj(r) : r \in DOMAIN opts})

\* environment of the subprocess the latest raw invocation starts: the env
\* option when the options object has one, process.env otherwise
SubprocessEnv ==
    LET o == Pick(lastRaw.argv, "object")
    IN  IF o.t = "object" /\ opts[o.ref].env # 0
        THEN envs[opts[o.ref].env]
        ELSE envs[ProcessEnv]

----------------------------------------------------------------------------
(* Claims *)

\* the allow-set of the policy that matches the classification of the name
OwnList(request) ==
    IF isBuiltin(request) THEN policy.allowedBuiltInModules
                          ELSE policy.allowedExternalModules

\* C1: any subprocess started through any handle resolve returned, under
\* whatever admitted request name, receives an environment with none of the
\* three sensitive variables.
C1_NoSecretThroughAnyHandle ==
    RawWellFormed => (DOMAIN SubprocessEnv) \cap SENSITIVE_ENV_VARS = {}

\* C2: on the filtered facility returned for "child_process", whichever
\* member starts the subprocess, the environment the raw facility uses for
\* it has none of the three sensitive variables.
C2_NoSecretThroughFilteredFacility ==
    (/\ result.kind = "return"
     /\ result.request = "child_process"
     /\ lastCall.member \in DOMAIN result.value
     /\ RawWellFormed)
    => \A k \in SENSITIVE_ENV_VARS : k \notin DOMAIN SubprocessEnv

\* C3: for every call of spawn, exec, execFile or fork on the filtered
\* facility, the env handed to the raw operation is the caller's env option
\* when the call carries one, else process.env, minus exactly the three
\* sensitive keys, every other key and value kept and none added.
C3_HandedEnvIsBaseMinusSecrets ==
    lastCall.impl = "secure" =>
        LET handed == envs[opts[lastRaw.argv[OptionsIndex(lastRaw.op)].ref].env]
            given == Pick(lastCall.argv, "object")
            explicit == given.t = "object" /\ opts[given.ref].env # 0
            base == IF explicit THEN envs[opts[given.ref].env] ELSE envs[ProcessEnv]
        IN  /\ DOMAIN handed = (DOMAIN base) \ SENSITIVE_ENV_VARS
            /\ \A k \in DOMAIN handed : handed[k] = base[k]

\* C4: resolve admits a name iff the allow-set of the name's own
\* classification is the wildcard or holds that exact string, and replacing
\* the allow-set of the other classification never changes the outcome.
C4_AdmittedByOwnAllowSetOnly ==
    \A i \in DOMAIN calls :
        LET r == calls[i].request
        IN  /\ calls[i].admitted <=> (OwnList(r).wildcard \/ r \in OwnList(r).names)
            /\ \A other \in AllowLists :
                  LET q == IF isBuiltin(r)
                           THEN [policy EXCEPT !.allowedExternalModules = other]
                           ELSE [policy EXCEPT !.allowedBuiltInModules = other]
                  IN  isAllowed(q, r) = calls[i].admitted

\* a built-in name is admitted though the external set lacks it, and another
\* built-in name is denied though the external set holds it
C4_Witness ==
    \E i, j \in DOMAIN calls :
        /\ isBuiltin(calls[i].request) /\ calls[i].admitted
        /\ ~policy.allowedExternalModules.wildcard
        /\ calls[i].request \notin policy.allowedExternalModules.names
        /\ isBuiltin(calls[j].request) /\ ~calls[j].admitted
        /\ calls[j].request \in policy.allowedExternalModules.names

\* C5: a call whose name is not in its applicable allow-set (not the
\* wildcard) throws an ExecutionError wrapping a DisallowedModuleError built
\* from that exact name, and the host's require is not performed for it.
C5_DeniedThrowsWithoutLoad ==
    [][ Len(calls') = Len(calls) + 1 =>
            LET r == calls'[Len(calls')].request
            IN  (~OwnList(r).wildcard /\ r \notin OwnList(r).names) =>
                    /\ result'.kind = "throw"
                    /\ result'.error.name = "ExecutionError"
                    /\ result'.error.cause.name = "DisallowedModuleError"
                    /\ result'.error.cause.moduleName = r
                    /\ loads' = loads ]_vars

\* a call is denied after an earlier call was admitted and loaded
C5_Witness ==
    /\ result.kind = "throw"
    /\ Len(loads) = 1
    /\ Len(calls) = 2
    /\ result.error.cause.moduleName = calls[2].request

\* C6: an admitted call returns the filter's output over the loaded facility
\* iff the request is exactly "child_process"; any other admitted name gets
\* the raw loaded facility itself.
C6_FilteredIffExactName ==
    result.kind = "return" =>
        /\ (result.value = createSecureChildProcessWrapper(Require(result.request)))
              <=> (result.request = "child_process")
        /\ result.request # "child_process" => result.value = Require(result.request)

\* "child_process" was resolved to the filtered facility and then
\* "node:child_process" to the raw one
C6_Witness ==
    /\ Len(calls) = 2
    /\ calls[1].request = "child_process" /\ calls[1].admitted
    /\ result.kind = "return"
    /\ result.request = "node:child_process"
    /\ result.value = RawChildProcess

\* C7: the filtered facility has every member of the raw one; exactly spawn,
\* exec, execFile and fork differ from the raw members, every other member
\* is the raw facility's own.
C7_SurfaceKeptFourReplaced ==
    (result.kind = "return" /\ result.request = "child_process") =>
        LET raw == Require(result.request)
            filtered == result.value
        IN  /\ DOMAIN raw \subseteq DOMAIN filtered
            /\ {m \in DOMAIN raw : filtered[m] # raw[m]}
                  = {"spawn", "exec", "execFile", "fork"}
            /\ \A m \in (DOMAIN filtered) \ {"spawn", "exec", "execFile", "fork"} :
                  m \in DOMAIN raw /\ filtered[m] = raw[m]

\* resolve("child_process") was admitted and returned a handle
C7_Witness ==
    /\ result.kind = "return"
    /\ result.request = "child_process"
    /\ "execSync" \in DOMAIN result.value

\* C8: every call of the four wrappers, optional arguments omitted or not,
\* reaches the raw operation with the caller's argument list, callback and
\* options other than env, and returns the raw operation's result.
C8_ForwardedVerbatim ==
    lastCall.impl = "secure" =>
        LET want == Aligned(lastCall.member, lastCall.argv)
            at == OptionsIndex(lastRaw.op)
        IN  /\ lastRaw.op = lastCall.member
            /\ Len(lastRaw.argv) = Len(want)
            /\ \A i \in DOMAIN want : i # at => lastRaw.argv[i] = want[i]
            /\ opts[lastRaw.argv[at].ref].rest
                  = (IF want[at].t = "object" THEN opts[want[at].ref].rest
                                              ELSE [k \in {} |-> ""])
            /\ returned = lastRaw.result

\* C9: a call of one of the four wrappers leaves process.env, every env
\* mapping and every options object that existed before it as they were,
\* and hands the raw operation a new options object holding a new env mapping.
C9_InputsUntouchedEnvFresh ==
    [][ (rawCount' = rawCount + 1 /\ lastCall'.impl = "secure") =>
            LET handed == lastRaw'.argv[OptionsIndex(lastRaw'.op)].ref
            IN  /\ \A i \in DOMAIN envs : i \in DOMAIN envs' /\ envs'[i] = envs[i]
                /\ \A i \in DOMAIN opts : i \in DOMAIN opts' /\ opts'[i] = opts[i]
                /\ handed \notin DOMAIN opts
                /\ opts'[handed].env \notin DOMAIN envs ]_vars

\* two wrapper calls were made, over a process.env and a caller env that
\* both hold the credentials, one sanitizing each
C9_Witness ==
    /\ rawCount >= 2
    /\ lastCall.impl = "secure"
    /\ SENSITIVE_ENV_VARS \subseteq DOMAIN envs[ProcessEnv]
    /\ SENSITIVE_ENV_VARS \subseteq DOMAIN envs[CallerEnv]
    /\ Len(envs) >= 4
    /\ "PATH" \in DOMAIN envs[Len(envs) - 1]
    /\ "SECRET" \in DOMAIN envs[Len(envs)]

\* C10: for a fixed policy the outcome of resolve(name) after any earlier
\* calls is the outcome of a first call, and every admitted call performs
\* the host load again.
C10_StatelessAndReloads ==
    /\ \A i \in DOMAIN calls :
          LET r == calls[i].request
          IN  calls[i].admitted <=> (OwnList(r).wildcard \/ r \in OwnList(r).names)
    /\ \A i, j \in DOMAIN calls :
          calls[i].request = calls[j].request => calls[i].admitted = calls[j].admitted
    /\ LET admitted == SelectSeq(calls, LAMBDA c : c.admitted)
       IN  /\ Len(loads) = Len(admitted)
           /\ \A i \in DOMAIN loads : loads[i] = admitted[i].request

\* the same admitted name was resolved twice and loaded twice
C10_Witness ==
    /\ Len(calls) >= 2
    /\ calls[1].request = calls[2].request
    /\ calls[1].admitted
    /\ Len(loads) >= 2

====
